---- MODULE Spec2Model ----
(***************************************************************************)
(* Model of app/utils/Annotations.py: the Annotations class that draws     *)
(* corner boxes, labels and trails on video frames and composes the        *)
(* evidence frame of a traffic violation.                                  *)
(*                                                                         *)
(* Frames are numpy arrays passed by reference: the model keeps a heap of  *)
(* frame buffers, each with its shape and the list of writes made to it.   *)
(* cv2 and numpy are modelled by what they do to that heap and by the      *)
(* errors they raise; cv2.getTextSize is an arbitrary measurement.         *)
(***************************************************************************)
EXTENDS Integers, Sequences, FiniteSets, TLC

VARIABLES pc, call, args, frames, ftp, cap, ann, ret

vars == <<pc, call, args, frames, ftp, cap, ann, ret>>

-----------------------------------------------------------------------------
(* Bounds of the model.                                                    *)

\* Longest center-point history handed to the trail renderer.
MaxPoints == 3
\* Longest detection list handed to annotate_frame.
MaxDetections == 2
\* Cap on the decrements of one font-scale search (the loop itself stops earlier).
MaxDecrements == 16
\* Largest index of the coordinate grid of the corner-box renderer's inputs.
MaxCoordIdx == 30
\* Spacing of that grid, in pixels.
CoordStep == 11
\* The sizes cv2.getTextSize reports: a narrow or a wide text, of one height.
NarrowText == 20
WideText == 1000
TextHeight == 22

-----------------------------------------------------------------------------
(* Styling attributes set by __init__.                                     *)

min_corner_radius == 5
max_corner_radius == 30
border_radius == 6
center_point_radius == 5
min_thickness == 1
max_thickness == 5
font_thickness == 2
label_padding == 25
padding == 64
trail_thickness == 12
thickness == 8

bbox_colours == [standard |-> <<10, 255, 10>>, offender |-> <<10, 10, 255>>, trail |-> <<255, 10, 10>>]
font_colour == <<255, 255, 255>>
bg_colour == <<0, 0, 0>>

\* size_factor = 0.5 and thickness_factor = 0.01 as fractions. 0.5 is exact in
\* binary; the double 0.01 is 1/100 * (1 + 2.1e-17), so for every integer n
\* with |n| < 2^31 the double product n * 0.01 truncates to the same integer
\* as the exact n/100.
size_factor == [num |-> 1, den |-> 2]
thickness_factor == [num |-> 1, den |-> 100]

-----------------------------------------------------------------------------
(* Python and numpy arithmetic.                                            *)

Min(a, b) == IF a <= b THEN a ELSE b
Max(a, b) == IF a >= b THEN a ELSE b
Abs(a) == IF a >= 0 THEN a ELSE -a

\* int(n * f) for an integer n and a factor f: truncation toward zero.
PyIntOfProduct(n, f) ==
    IF n * f.num >= 0 THEN (n * f.num) \div f.den ELSE -((-(n * f.num)) \div f.den)

\* slice(start, stop).indices(n): negative indices count from the end, then
\* both ends are clipped to 0..n.
SliceIndex(i, n) == IF i < 0 THEN Max(i + n, 0) ELSE Min(i, n)
SliceLen(start, stop, n) == Max(SliceIndex(stop, n) - SliceIndex(start, n), 0)

-----------------------------------------------------------------------------
(* IEEE-754 doubles between 2^-4 and 4, as the font scale needs them.  A   *)
(* double is the integer count of units of 2^-56 it equals, kept in two    *)
(* limbs of 28 bits: value = (hi * 2^28 + lo) * 2^-56.                     *)

Limb == 2^28

\* self.font_scale = 2
font_scale == [hi |-> 2 * Limb, lo |-> 0]
\* min_font_scale = 0.8 = 0x1.999999999999ap-1
min_font_scale == [hi |-> 214748364, lo |-> 214748368]
\* the step 0.1 = 0x1.999999999999ap-4
font_scale_step == [hi |-> 26843545, lo |-> 161061274]

DblGt(a, b) == a.hi > b.hi \/ (a.hi = b.hi /\ a.lo > b.lo)

\* Units of 2^-56 in one unit in the last place of a double of this size.
DblUlp(v) ==
    IF v.hi >= 2 * Limb THEN 32
    ELSE IF v.hi >= Limb THEN 16
    ELSE IF 2 * v.hi >= Limb THEN 8
    ELSE IF 4 * v.hi >= Limb THEN 4
    ELSE IF 8 * v.hi >= Limb THEN 2
    ELSE 1

\* Round an exact value to the nearest double, ties to the even mantissa.
DblRound(v) ==
    LET q == DblUlp(v)
        r == v.lo % q
        down == v.lo - r
        odd == (down \div q) % 2 = 1
        up == 2 * r > q \/ (2 * r = q /\ odd)
        lo2 == IF up THEN down + q ELSE down
    IN  IF lo2 = Limb THEN [hi |-> v.hi + 1, lo |-> 0] ELSE [hi |-> v.hi, lo |-> lo2]

\* a - b for doubles a >= b: the exact difference, rounded.
DblSub(a, b) ==
    LET exact == IF a.lo >= b.lo
                 THEN [hi |-> a.hi - b.hi, lo |-> a.lo - b.lo]
                 ELSE [hi |-> a.hi - b.hi - 1, lo |-> a.lo + Limb - b.lo]
    IN  DblRound(exact)

-----------------------------------------------------------------------------
(* int(a * (b / c)) in double arithmetic, for small integers a, b, c:      *)
(* b / c is rounded to a double, the product is rounded again, int()       *)
(* truncates toward zero.  When c does not divide a * b the two roundings  *)
(* are far too small to move the product across an integer; when it does,  *)
(* the product is the integer n = a*b/c or the double just below it, which *)
(* the remainder of b * 2^k modulo c decides.                              *)

RECURSIVE FloorLog2(_)
FloorLog2(n) == IF n < 2 THEN 0 ELSE 1 + FloorLog2(n \div 2)

IsPow2(n) == n = 2^FloorLog2(n)

\* The E with 2^E <= b/c < 2^(E+1), for b, c > 0.
RECURSIVE FloorLog2Ratio(_, _)
FloorLog2Ratio(b, c) ==
    IF b >= 2 * c THEN 1 + FloorLog2Ratio(b \div 2, c)
    ELSE IF b >= c THEN 0
    ELSE FloorLog2Ratio(2 * b, c) - 1

\* (b * 2^k) % c
RECURSIVE ShiftMod(_, _, _)
ShiftMod(b, k, c) == IF k = 0 THEN b % c ELSE (2 * ShiftMod(b, k - 1, c)) % c

\* |int(a * (b / c))| for a, b, c > 0 with c dividing a * b.
DblQuotientProduct(a, b, c) ==
    LET n == (a * b) \div c
        E == FloorLog2Ratio(b, c)
        r == ShiftMod(b, 52 - E, c)
        x == E + 1 + (IF IsPow2(n) THEN 1 ELSE 0) - FloorLog2(n)
        below == IF x >= 0 THEN a * r * 2^x > c ELSE a * r > c * 2^(-x)
    IN  IF r = 0 \/ 2 * r > c THEN n
        ELSE IF below THEN n - 1 ELSE n

\* int(a * (b / c)) for integers a, b >= 0 and c # 0.
PyIntOfScaled(a, b, c) ==
    LET sgn == IF (a < 0) = (c < 0) THEN 1 ELSE -1
        A == Abs(a)
        C == Abs(c)
    IN  IF A = 0 \/ b = 0 THEN 0
        ELSE IF (A * b) % C # 0 THEN sgn * ((A * b) \div C)
        ELSE sgn * DblQuotientProduct(A, b, C)

-----------------------------------------------------------------------------
(* Python string formatting.                                               *)

Digits == <<"0", "1", "2", "3", "4", "5", "6", "7", "8", "9">>

\* str(n) for an integer n.
RECURSIVE NatToStr(_)
NatToStr(n) == IF n < 10 THEN Digits[n + 1] ELSE NatToStr(n \div 10) \o Digits[(n % 10) + 1]
IntToStr(n) == IF n < 0 THEN "-" \o NatToStr(-n) ELSE NatToStr(n)

\* An optional value is << >> (the key is missing) or <<v>>.
Missing == << >>
Some(v) == <<v>>
IsMissing(o) == o = << >>

\* f"{o}" of dict.get's result for an integer field: None prints as "None".
StrOfOptInt(o) == IF IsMissing(o) THEN "None" ELSE IntToStr(o[1])

\* f"{x:.2f}" for the double x = e/8 >= 0: the exact value rounded to
\* hundredths, ties to even.
FormatEighths2f(e) ==
    LET q == (e * 100) \div 8
        r == (e * 100) % 8
        h == IF r > 4 \/ (r = 4 /\ q % 2 = 1) THEN q + 1 ELSE q
    IN  NatToStr(h \div 100) \o "." \o Digits[((h \div 10) % 10) + 1] \o Digits[(h % 10) + 1]

-----------------------------------------------------------------------------
(* The heap of frame buffers.  A frame argument is an index into it; a     *)
(* buffer is its shape and the writes made to it since the call began.     *)

NewFrame(w, h) == [w |-> w, h |-> h, log |-> << >>]

\* One write to the buffer a frame reference points to.
Draw(heap, fid, op) == [heap EXCEPT ![fid].log = Append(@, op)]
DrawAll(heap, fid, ops) == [heap EXCEPT ![fid].log = @ \o ops]

\* A copy that aliases: the "copy" is the caller's own buffer.
FrameAlias(heap, fid) == heap

\* frame.copy(): a new buffer with the same pixels; its reference is Len of the result.
FrameCopy(heap, fid) == Append(heap, heap[fid])

-----------------------------------------------------------------------------
(* fetch_bbox_colour and annotate_bbox_corners.                            *)

\* bool(detection.get('offender', False))
fetch_bbox_colour(detection) ==
    IF ~IsMissing(detection.offender) /\ detection.offender[1]
    THEN bbox_colours.offender ELSE bbox_colours.standard

detection_size(detection) == Min(detection.x2 - detection.x1, detection.y2 - detection.y1)

\* The radius without its lower clamp.
corner_radius_no_floor(detection) ==
    Min(PyIntOfProduct(detection_size(detection), size_factor), max_corner_radius)

corner_radius(detection) ==
    Max(Min(PyIntOfProduct(detection_size(detection), size_factor), max_corner_radius),
        min_corner_radius)

\* The thickness without its upper clamp.
bbox_thickness_no_ceiling(detection) ==
    Max(PyIntOfProduct(detection_size(detection), thickness_factor) * 2, min_thickness)

bbox_thickness(detection) ==
    Max(Min(PyIntOfProduct(detection_size(detection), thickness_factor) * 2, max_thickness),
        min_thickness)

Ellipse(center, radius, start_angle, end_angle, colour, thick) ==
    [op |-> "ellipse", center |-> center, axes |-> <<radius, radius>>,
     angles |-> <<start_angle, end_angle>>, colour |-> colour, thickness |-> thick]

bbox_corners(detection) ==
    LET x1 == detection.x1
        y1 == detection.y1
        x2 == detection.x2
        y2 == detection.y2
        r == corner_radius(detection)
        t == bbox_thickness(detection)
        c == fetch_bbox_colour(detection)
    IN  << Ellipse(<<x1 + r, y1 + r>>, r, 180, 270, c, t),
           Ellipse(<<x1 + r, y2 - r>>, r, 90, 180, c, t),
           Ellipse(<<x2 - r, y1 + r>>, r, 270, 360, c, t),
           Ellipse(<<x2 - r, y2 - r>>, r, 0, 90, c, t) >>

\* Draws the four arcs on the frame it is given and returns that frame.
annotate_bbox_corners(heap, fid, detection) == DrawAll(heap, fid, bbox_corners(detection))

-----------------------------------------------------------------------------
(* create_label.                                                           *)

VisionTypes == {"object_detection", "object_tracking", "speed_estimation",
                "plate_reading", "traffic_violation"}

\* detection.get('license_plate', {}).get('plate_text', '')
plate_text(detection) ==
    IF IsMissing(detection.license_plate) THEN ""
    ELSE IF IsMissing(detection.license_plate[1].plate_text) THEN ""
    ELSE detection.license_plate[1].plate_text[1]

StrOfOptStr(o) == IF IsMissing(o) THEN "None" ELSE o[1]

\* The dictionary of the five labels, all five formatted before the lookup.
detection_labels(detection, captured_at) ==
    LET id == StrOfOptInt(detection.ID) IN
    [object_detection |-> "ID: " \o id \o " | Class: " \o StrOfOptStr(detection.classname)
                          \o " | Confidence Score: "
                          \o FormatEighths2f(detection.confidence_score[1]),
     object_tracking |-> "ID: " \o id,
     speed_estimation |-> "ID: " \o id \o " | Speed: " \o StrOfOptInt(detection.speed) \o "mph",
     plate_reading |-> "ID: " \o id \o " | Plate: " \o plate_text(detection),
     traffic_violation |-> "ID: " \o id \o " | Captured: " \o StrOfOptInt(captured_at)
                           \o " | Speed: " \o StrOfOptInt(detection.speed) \o "mph"]

\* format(None, '.2f') raises TypeError while the dictionary is built, whatever
\* the vision type; otherwise dict.get(vision_type, 'object_detection').
create_label(detection, vision_type, captured_at) ==
    IF IsMissing(detection.confidence_score)
    THEN [raised |-> "TypeError", value |-> ""]
    ELSE [raised |-> "none",
          value |-> IF vision_type \in VisionTypes
                    THEN detection_labels(detection, captured_at)[vision_type]
                    ELSE "object_detection"]

-----------------------------------------------------------------------------
(* annotate_center_point and annotate_center_point_trail.                  *)

annotate_center_point(heap, fid, center_point) ==
    Draw(heap, fid, [op |-> "circle", center |-> center_point, radius |-> center_point_radius,
                     colour |-> bbox_colours.offender, thickness |-> thickness])

\* The segments with the last one forgotten.
trail_lines_short(center_points) ==
    [x \in 1..(Len(center_points) - 2) |->
        [op |-> "line", from |-> center_points[x], to |-> center_points[x + 1],
         colour |-> bbox_colours.trail, thickness |-> trail_thickness]]

trail_lines(center_points) ==
    [x \in 1..(Len(center_points) - 1) |->
        [op |-> "line", from |-> center_points[x], to |-> center_points[x + 1],
         colour |-> bbox_colours.trail, thickness |-> trail_thickness]]

annotate_center_point_trail(heap, fid, center_points) ==
    IF Len(center_points) < 2 THEN heap
    ELSE annotate_center_point(
             annotate_center_point(DrawAll(heap, fid, trail_lines(center_points)),
                                   fid, center_points[1]),
             fid, center_points[Len(center_points)])

-----------------------------------------------------------------------------
(* fetch_text_properties: the state of the shrink-to-fit loop.             *)

\* Lines 157-164: the baseline scale, the width bound and the first measurement.
fetch_text_properties(label, heap, fid, text_size, cont) ==
    [label |-> label,
     max_text_width |-> heap[fid].w - label_padding * 2,
     current_font_scale |-> font_scale,
     text_size |-> text_size,
     decrements |-> 0,
     cont |-> cont]

\* The while condition with the test against the minimum scale left out.
ftp_continues_no_floor(f) ==
    f.text_size[1] > f.max_text_width

\* The while condition of line 167.
ftp_continues(f) ==
    f.text_size[1] > f.max_text_width /\ DblGt(f.current_font_scale, min_font_scale)

\* Lines 170-172: one decrement and the new measurement.
ftp_decrement(f, text_size) ==
    [f EXCEPT !.current_font_scale = DblSub(@, font_scale_step),
              !.text_size = text_size,
              !.decrements = @ + 1]

-----------------------------------------------------------------------------
(* capture_traffic_violation, lines 451-507: copy, corner box, crop,       *)
(* resize, overlay paste and plate bar.                                    *)

Fill(rows, cols, h, w, colour) ==
    [op |-> "fill",
     rows |-> <<SliceIndex(rows[1], h), SliceIndex(rows[2], h)>>,
     cols |-> <<SliceIndex(cols[1], w), SliceIndex(cols[2], w)>>,
     colour |-> colour]

PutText(text, org, scale) ==
    [op |-> "putText", text |-> text, org |-> org, font_scale |-> scale,
     colour |-> font_colour, thickness |-> font_thickness]

capture_overlay(heap, fid, detection) ==
    LET x1 == detection.x1
        x2 == detection.x2
        y1 == detection.y1
        y2 == detection.y2
        copied == FrameCopy(heap, fid)
        captured_frame == Len(copied)
        cornered == annotate_bbox_corners(copied, captured_frame, detection)
        annotated_frame == captured_frame
        h == cornered[annotated_frame].h
        w == cornered[annotated_frame].w
        padded_x1 == Max(0, x1 - padding)
        padded_y1 == Max(0, y1 - padding)
        padded_x2 == Min(w, x2 + padding)
        padded_y2 == Min(h, y2 + padding)
        crop_rows == SliceLen(padded_y1, padded_y2 + padding, h)
        crop_cols == SliceLen(padded_x1, padded_x2 + padding, w)
        overlay_width == w \div 4
        overlay_height ==
            PyIntOfScaled(padded_y2 - padded_y1, overlay_width, padded_x2 - padded_x1)
        overlay_x == w - overlay_width - padding
        overlay_y == padding
        fits == overlay_y + overlay_height <= h /\ overlay_x + overlay_width <= w
        target_rows == SliceLen(overlay_y, overlay_y + overlay_height, h)
        target_cols == SliceLen(overlay_x, overlay_x + overlay_width, w)
        broadcasts == /\ (overlay_height = target_rows \/ overlay_height = 1)
                      /\ (overlay_width = target_cols \/ overlay_width = 1)
        pasted == fits /\ target_rows > 0 /\ target_cols > 0
        paste == [op |-> "paste",
                  rows |-> <<SliceIndex(overlay_y, h), SliceIndex(overlay_y + overlay_height, h)>>,
                  cols |-> <<SliceIndex(overlay_x, w), SliceIndex(overlay_x + overlay_width, w)>>]
        overlaid == IF pasted THEN Draw(cornered, annotated_frame, paste) ELSE cornered
        plate_label_bg_height == h \div 14
        plate_label_bg_y == overlay_y + overlay_height - plate_label_bg_height
        barred == Draw(overlaid, annotated_frame,
                       Fill(<<plate_label_bg_y, overlay_y + overlay_height>>,
                            <<overlay_x, overlay_x + overlay_width>>, h, w, <<0, 0, 0>>))
        locals(oh, didpaste) ==
            [annotated_frame |-> annotated_frame, w |-> w, h |-> h,
             license_plate |-> plate_text(detection),
             overlay_x |-> overlay_x, overlay_y |-> overlay_y,
             overlay_width |-> overlay_width, overlay_height |-> oh,
             pasted |-> didpaste,
             plate_label_bg_y |-> overlay_y + oh - plate_label_bg_height,
             plate_label_bg_height |-> plate_label_bg_height]
    IN  IF padded_x2 - padded_x1 = 0
        THEN \* line 479: float division by zero
             [raised |-> "ZeroDivisionError", line |-> 479, heap |-> cornered,
              locals |-> locals(0, FALSE)]
        ELSE IF crop_rows = 0 \/ crop_cols = 0 \/ overlay_width <= 0 \/ overlay_height <= 0
        THEN \* line 482: cv2.resize rejects an empty source and an empty target size
             [raised |-> "cv2.error", line |-> 482, heap |-> cornered,
              locals |-> locals(overlay_height, FALSE)]
        ELSE IF fits /\ ~broadcasts
        THEN \* line 492: the slice has another shape than the upscaled crop
             [raised |-> "ValueError", line |-> 492, heap |-> cornered,
              locals |-> locals(overlay_height, FALSE)]
        ELSE [raised |-> "none", line |-> 507, heap |-> barred,
              locals |-> locals(overlay_height, pasted)]

\* Lines 511-523: the plate text, centred in the plate bar.
capture_plate_text(heap, c, text_size, scale) ==
    LET text_x == c.overlay_x + (c.overlay_width - text_size[1]) \div 2
        text_y == c.plate_label_bg_y + (c.plate_label_bg_height + text_size[2]) \div 2
    IN  Draw(heap, c.annotated_frame, PutText(c.license_plate, <<text_x, text_y>>, scale))

\* Lines 530-553: the metadata bar across the bottom and its text.
capture_metadata(heap, c, label, text_size, scale) ==
    LET label_height == text_size[2] + padding * 2
        label_y1 == c.h - label_height
        bg_cx == c.w \div 2
        bg_cy == label_y1 + label_height \div 2
        label_pos_x1 == bg_cx - (text_size[1] \div 2)
        label_pos_y1 == bg_cy + text_size[2] \div 2
    IN  Draw(Draw(heap, c.annotated_frame,
                  Fill(<<label_y1, c.h>>, <<0, c.w>>, c.h, c.w, <<0, 0, 0>>)),
             c.annotated_frame, PutText(label, <<label_pos_x1, label_pos_y1>>, scale))

-----------------------------------------------------------------------------
(* The label layout: calculate_label_position, draw_label_background and   *)
(* draw_label_text.  A center point is held in half pixels, so that the    *)
(* float midpoint of two integer coordinates is exact.                     *)

\* int() of a float given in half pixels: truncation toward zero.
PyIntOfHalves(n) == IF n >= 0 THEN n \div 2 ELSE -((-n) \div 2)

\* Lines 192-199.
calculate_label_position(bbox_bottom, center_point, text_size) ==
    LET text_width == text_size[1]
        text_height == text_size[2]
    IN  [x |-> PyIntOfHalves(center_point[1] - 2 * (text_width \div 2)),
         y |-> bbox_bottom + text_height + label_padding,
         width |-> text_width + 2 * label_padding,
         height |-> text_height + 2 * label_padding]

Rectangle(pt1, pt2, colour, thick) ==
    [op |-> "rectangle", pt1 |-> pt1, pt2 |-> pt2, colour |-> colour, thickness |-> thick]

\* Lines 239-267: two filled rectangles and the four filled corners.
label_background(position) ==
    LET x == position.x
        y == position.y
        w == position.width
        h == position.height
        r == border_radius
    IN  << Rectangle(<<x + r, y>>, <<x + w - r, y + h>>, bg_colour, -1),
           Rectangle(<<x, y + r>>, <<x + w, y + h - r>>, bg_colour, -1),
           Ellipse(<<x + r, y + r>>, r, 180, 270, bg_colour, -1),
           Ellipse(<<x + w - r, y + r>>, r, 270, 360, bg_colour, -1),
           Ellipse(<<x + r, y + h - r>>, r, 90, 180, bg_colour, -1),
           Ellipse(<<x + w - r, y + h - r>>, r, 0, 90, bg_colour, -1) >>

draw_label_background(heap, fid, position) == DrawAll(heap, fid, label_background(position))

\* Lines 289-305.
draw_label_text(heap, fid, label, position, text_size, scale) ==
    Draw(heap, fid, PutText(label,
                            <<position.x + label_padding,
                              position.y + text_size[2] + label_padding>>,
                            scale))

-----------------------------------------------------------------------------
(* annotate_label, in two parts: up to the first measurement of the label, *)
(* and from the result of the font-scale search to the return.             *)

\* detection.get('center_points', [])
center_points_of(detection) ==
    IF IsMissing(detection.center_points) THEN << >> ELSE detection.center_points[1]

\* BboxUtils.calculate_center_point: the midpoint of the box, in half pixels.
calculate_center_point(detection) ==
    <<detection.x1 + detection.x2, detection.y1 + detection.y2>>

\* Lines 324-337 with the trail drawn for every vision type.
annotate_label_trail_always(heap, fid, detection, vision_type) ==
    LET detection_label == create_label(detection, vision_type, Missing)
    IN  IF detection_label.raised # "none"
        THEN [raised |-> detection_label.raised, label |-> "", y2 |-> 0, center |-> <<0, 0>>,
              heap |-> heap, calls |-> <<"create_label">>]
        ELSE [raised |-> "none",
              label |-> detection_label.value,
              y2 |-> detection.y2,
              center |-> calculate_center_point(detection),
              heap |-> annotate_center_point_trail(heap, fid, center_points_of(detection)),
              calls |-> <<"create_label", "calculate_center_point",
                          "annotate_center_point_trail", "fetch_text_properties">>]

\* Lines 324-337: the label, the bottom of the box, the center point, the
\* trail for object tracking; calls is the sequence of calls made, the last
\* one being the font-scale search that starts.
annotate_label(heap, fid, detection, vision_type) ==
    LET detection_label == create_label(detection, vision_type, Missing)
        tracking == vision_type = "object_tracking"
    IN  IF detection_label.raised # "none"
        THEN [raised |-> detection_label.raised, label |-> "", y2 |-> 0, center |-> <<0, 0>>,
              heap |-> heap, calls |-> <<"create_label">>]
        ELSE [raised |-> "none",
              label |-> detection_label.value,
              y2 |-> detection.y2,
              center |-> calculate_center_point(detection),
              heap |-> IF tracking
                       THEN annotate_center_point_trail(heap, fid, center_points_of(detection))
                       ELSE heap,
              calls |-> <<"create_label", "calculate_center_point">>
                        \o (IF tracking THEN <<"annotate_center_point_trail">> ELSE << >>)
                        \o <<"fetch_text_properties">>]

\* Lines 339-346: position, background and text, on the frame passed in.
annotate_label_draw(heap, fid, label, y2, center, text_size, scale) ==
    LET label_position == calculate_label_position(y2, center, text_size)
    IN  draw_label_text(draw_label_background(heap, fid, label_position),
                        fid, label, label_position, text_size, scale)

-----------------------------------------------------------------------------
(* The inputs the calls are made with.                                     *)

OptBool == {Missing, Some(FALSE), Some(TRUE)}

\* A detection dictionary with every optional key missing.
BaseDetection ==
    [ID |-> Some(7), classname |-> Some("car"), confidence_score |-> Some(7),
     x1 |-> 100, y1 |-> 100, x2 |-> 200, y2 |-> 200,
     offender |-> Missing, speed |-> Missing, license_plate |-> Missing]

WithBox(d, x1, y1, x2, y2) == [d EXCEPT !.x1 = x1, !.y1 = y1, !.x2 = x2, !.y2 = y2]

CoordGrid == {k * CoordStep : k \in 0..MaxCoordIdx}

\* Boxes of every size from -2*CoordStep to MaxCoordIdx*CoordStep.
CornerOrigins == {0, 2 * CoordStep}
CornerDetection(x1, y1, x2, y2, o) ==
    [WithBox(BaseDetection, x1, y1, x2, y2) EXCEPT !.offender = o]

LicensePlates == {Missing, Some([plate_text |-> Missing]), Some([plate_text |-> Some("AB12CDE")])}

LabelDetections ==
    {[BaseDetection EXCEPT !.ID = i, !.classname = c, !.confidence_score = s,
                           !.speed = v, !.license_plate = l] :
        i \in {Missing, Some(7)}, c \in {Missing, Some("car")},
        s \in {Missing, Some(1), Some(7)}, v \in {Missing, Some(42)},
        l \in LicensePlates}

Timestamps == {Missing, Some(1700000000)}

Points == {<<0, 0>>, <<10, 10>>, <<20, 20>>}
RECURSIVE SeqsUpTo(_, _)
SeqsUpTo(S, n) ==
    IF n = 0 THEN {<< >>}
    ELSE LET shorter == SeqsUpTo(S, n - 1)
         IN  shorter \cup {Append(q, x) : q \in {t \in shorter : Len(t) = n - 1}, x \in S}
CenterPointLists == SeqsUpTo(Points, MaxPoints)

\* cv2.getTextSize(...)[0]
TextSizes == {<<NarrowText, TextHeight>>, <<WideText, TextHeight>>}

\* (width, height) of the frames.
FrameShapes == {<<40, 200>>, <<80, 200>>, <<400, 300>>, <<1920, 1080>>}
CaptureShapes == {<<40, 200>>, <<80, 200>>, <<400, 300>>}

CaptureDetections ==
    {[WithBox(BaseDetection, x1, y1, x2, y2) EXCEPT
         !.offender = Some(TRUE), !.speed = Some(42), !.confidence_score = s,
         !.license_plate = l] :
        x1 \in {0, 100, 464}, x2 \in {10, 200, 500}, y1 \in {0, 100}, y2 \in {10, 200},
        s \in {Missing, Some(7)},
        l \in {Missing, Some([plate_text |-> Some("AB12CDE")])}}

\* A detection as the tracker hands it over: with the center_points key.
TrackedDetection(d, center_points) ==
    [ID |-> d.ID, classname |-> d.classname, confidence_score |-> d.confidence_score,
     x1 |-> d.x1, y1 |-> d.y1, x2 |-> d.x2, y2 |-> d.y2,
     offender |-> d.offender, speed |-> d.speed, license_plate |-> d.license_plate,
     center_points |-> center_points]

\* A box with a history of three points, an offender without the key, and
\* a detection without a confidence score.
AnnotateDetections ==
    { TrackedDetection(WithBox(BaseDetection, 100, 100, 200, 200),
                       Some(<< <<0, 0>>, <<10, 10>>, <<20, 20>> >>)),
      TrackedDetection([WithBox(BaseDetection, 10, 20, 61, 90) EXCEPT !.offender = Some(TRUE)],
                       Missing),
      TrackedDetection([BaseDetection EXCEPT !.confidence_score = Missing],
                       Some(<< <<5, 5>> >>)) }

DetectionLists == SeqsUpTo(AnnotateDetections, MaxDetections)

\* Arguments of calculate_label_position: center points in half pixels.
LabelBottoms == {0, 200, 1079}
LabelCenters == {<<cx, 300>> : cx \in {0, 1, 300, 301, 3839}}
LabelTextSizes == TextSizes \cup {<<NarrowText + 1, TextHeight>>}

-----------------------------------------------------------------------------
(* The calls.  One call is made at a time, on a frame of its own; pc is    *)
(* the position inside the call.                                           *)

Init ==
    /\ pc = "idle"
    /\ call = "none"
    /\ args = << >>
    /\ frames = << >>
    /\ ftp = << >>
    /\ cap = << >>
    /\ ann = << >>
    /\ ret = << >>

\* annotate_bbox_corners(frame, detection)
AnnotateBboxCorners ==
    /\ pc = "idle"
    /\ \E x1 \in CornerOrigins, y1 \in CornerOrigins, x2 \in CoordGrid, y2 \in CoordGrid,
          o \in OptBool :
         LET frame == NewFrame(400, 300)
             detection == CornerDetection(x1, y1, x2, y2, o)
         IN
         /\ args' = [frame |-> frame, detection |-> detection]
         /\ frames' = annotate_bbox_corners(<<frame>>, 1, detection)
    /\ call' = "annotate_bbox_corners"
    /\ pc' = "done"
    /\ ret' = [raised |-> "none", frame |-> 1]
    /\ UNCHANGED <<ftp, cap, ann>>

\* create_label(detection, vision_type, captured_at)
CreateLabel ==
    /\ pc = "idle"
    /\ \E detection \in LabelDetections, vision_type \in VisionTypes \cup {"lane_detection"},
          captured_at \in Timestamps :
         /\ args' = [detection |-> detection, vision_type |-> vision_type,
                     captured_at |-> captured_at]
         /\ ret' = create_label(detection, vision_type, captured_at)
         /\ pc' = IF ret'.raised = "none" THEN "done" ELSE "raised"
    /\ call' = "create_label"
    /\ UNCHANGED <<frames, ftp, cap, ann>>

\* annotate_center_point_trail(frame, center_points)
AnnotateCenterPointTrail ==
    /\ pc = "idle"
    /\ \E center_points \in CenterPointLists :
         LET frame == NewFrame(400, 300) IN
         /\ args' = [frame |-> frame, center_points |-> center_points]
         /\ frames' = annotate_center_point_trail(<<frame>>, 1, center_points)
    /\ call' = "annotate_center_point_trail"
    /\ pc' = "done"
    /\ ret' = [raised |-> "none", frame |-> 1]
    /\ UNCHANGED <<ftp, cap, ann>>

\* fetch_text_properties(label, frame), up to the first test of the loop.
FetchTextProperties ==
    /\ pc = "idle"
    /\ \E label \in {"", "ID: 7"}, shape \in FrameShapes, text_size \in TextSizes :
         LET frame == NewFrame(shape[1], shape[2]) IN
         /\ args' = [label |-> label, frame |-> frame]
         /\ frames' = <<frame>>
         /\ ftp' = fetch_text_properties(label, <<frame>>, 1, text_size, "done")
    /\ call' = "fetch_text_properties"
    /\ pc' = "fetch_text_properties"
    /\ UNCHANGED <<cap, ann, ret>>

\* One pass of the while loop, in whichever call runs the search.
FetchTextPropertiesLoop ==
    /\ pc = "fetch_text_properties"
    /\ ftp_continues(ftp)
    /\ ftp.decrements < MaxDecrements
    /\ \E text_size \in TextSizes : ftp' = ftp_decrement(ftp, text_size)
    /\ UNCHANGED <<pc, call, args, frames, cap, ann, ret>>

\* The loop ends: line 175 returns to the caller.
FetchTextPropertiesReturn ==
    /\ pc = "fetch_text_properties"
    /\ ~ftp_continues(ftp)
    /\ pc' = ftp.cont
    /\ ret' = IF ftp.cont = "done"
              THEN [raised |-> "none", text_size |-> ftp.text_size,
                    font_scale |-> ftp.current_font_scale]
              ELSE ret
    /\ UNCHANGED <<call, args, frames, ftp, cap, ann>>

\* capture_traffic_violation(frame, detection, captured_at), lines 451-510.
CaptureTrafficViolation ==
    /\ pc = "idle"
    /\ \E shape \in CaptureShapes, detection \in CaptureDetections, text_size \in TextSizes :
         LET frame == NewFrame(shape[1], shape[2])
             got == capture_overlay(<<frame>>, 1, detection)
         IN  /\ args' = [frame |-> frame, detection |-> detection,
                         captured_at |-> Some(1700000000)]
             /\ frames' = got.heap
             /\ cap' = got.locals
             /\ IF got.raised = "none"
                THEN /\ pc' = "fetch_text_properties"
                     /\ ftp' = fetch_text_properties(got.locals.license_plate, got.heap,
                                   got.locals.annotated_frame, text_size, "capture_plate_text")
                     /\ ret' = ret
                ELSE /\ pc' = "raised"
                     /\ ftp' = ftp
                     /\ ret' = [raised |-> got.raised, line |-> got.line]
    /\ call' = "capture_traffic_violation"
    /\ ann' = ann

\* Lines 511-529: the plate text, the metadata label and its first measurement.
CapturePlateText ==
    /\ pc = "capture_plate_text"
    /\ LET heap == capture_plate_text(frames, cap, ftp.text_size, ftp.current_font_scale)
           label == create_label(args.detection, "traffic_violation", args.captured_at)
       IN  /\ frames' = heap
           /\ IF label.raised = "none"
              THEN /\ pc' = "fetch_text_properties"
                   /\ \E text_size \in TextSizes :
                        ftp' = fetch_text_properties(label.value, heap, cap.annotated_frame,
                                                     text_size, "capture_metadata")
                   /\ ret' = ret
              ELSE /\ pc' = "raised"
                   /\ ftp' = ftp
                   /\ ret' = [raised |-> label.raised, line |-> 528]
    /\ UNCHANGED <<call, args, cap, ann>>

\* Lines 530-556: the metadata bar and text; the evidence frame is returned.
CaptureMetadata ==
    /\ pc = "capture_metadata"
    /\ frames' = capture_metadata(frames, cap, ftp.label, ftp.text_size, ftp.current_font_scale)
    /\ pc' = "done"
    /\ ret' = [raised |-> "none", frame |-> cap.annotated_frame]
    /\ UNCHANGED <<call, args, ftp, cap, ann>>

\* calculate_label_position(bbox_bottom, center_point, text_size)
CalculateLabelPosition ==
    /\ pc = "idle"
    /\ \E bbox_bottom \in LabelBottoms, center_point \in LabelCenters,
          text_size \in LabelTextSizes :
         /\ args' = [bbox_bottom |-> bbox_bottom, center_point |-> center_point,
                     text_size |-> text_size]
         /\ ret' = [raised |-> "none",
                    position |-> calculate_label_position(bbox_bottom, center_point, text_size)]
    /\ call' = "calculate_label_position"
    /\ pc' = "done"
    /\ UNCHANGED <<frames, ftp, cap, ann>>

\* annotate_frame(frame, detections, vision_type), up to the loop of line 60.
AnnotateFrame ==
    /\ pc = "idle"
    /\ \E detections \in DetectionLists, vision_type \in {"object_detection", "object_tracking"} :
         LET frame == NewFrame(400, 300) IN
         /\ args' = [frame |-> frame, detections |-> detections, vision_type |-> vision_type]
         /\ frames' = <<frame>>
    /\ ann' = [i |-> 0, calls |-> << >>, label |-> "", y2 |-> 0, center |-> <<0, 0>>]
    /\ call' = "annotate_frame"
    /\ pc' = "annotate_frame"
    /\ UNCHANGED <<ftp, cap, ret>>

\* Lines 60-66 and 324-337: the next detection, its corner box, and
\* annotate_label up to the first measurement of its label.
AnnotateFrameDetection ==
    /\ pc = "annotate_frame"
    /\ ann.i < Len(args.detections)
    /\ LET i == ann.i + 1
           detection == args.detections[i]
           boxed == annotate_bbox_corners(frames, 1, detection)
           got == annotate_label(boxed, 1, detection, args.vision_type)
           calls == ann.calls \o [k \in 1..(Len(got.calls) + 1) |->
                                     <<i, IF k = 1 THEN "annotate_bbox_corners"
                                          ELSE got.calls[k - 1]>>]
       IN  /\ frames' = got.heap
           /\ ann' = [i |-> i, calls |-> calls, label |-> got.label, y2 |-> got.y2,
                      center |-> got.center]
           /\ IF got.raised = "none"
              THEN /\ pc' = "fetch_text_properties"
                   /\ \E text_size \in TextSizes :
                        ftp' = fetch_text_properties(got.label, got.heap, 1, text_size,
                                                     "annotate_label")
                   /\ ret' = ret
              ELSE /\ pc' = "raised"
                   /\ ftp' = ftp
                   /\ ret' = [raised |-> got.raised, line |-> 324]
    /\ UNCHANGED <<call, args, cap>>

\* Lines 339-346: the position, the background and the text of the label;
\* annotate_label returns and the loop of annotate_frame goes on.
AnnotateLabel ==
    /\ pc = "annotate_label"
    /\ frames' = annotate_label_draw(frames, 1, ann.label, ann.y2, ann.center,
                                     ftp.text_size, ftp.current_font_scale)
    /\ ann' = [ann EXCEPT !.calls = @ \o << <<ann.i, "calculate_label_position">>,
                                             <<ann.i, "draw_label_background">>,
                                             <<ann.i, "draw_label_text">> >>]
    /\ pc' = "annotate_frame"
    /\ UNCHANGED <<call, args, ftp, cap, ret>>

\* Line 69: every detection is annotated; the frame passed in is returned.
AnnotateFrameReturn ==
    /\ pc = "annotate_frame"
    /\ ann.i = Len(args.detections)
    /\ pc' = "done"
    /\ ret' = [raised |-> "none", frame |-> 1]
    /\ UNCHANGED <<call, args, frames, ftp, cap, ann>>

\* The call is over; the next one starts from scratch.
Return ==
    /\ pc \in {"done", "raised"}
    /\ pc' = "idle"
    /\ call' = "none"
    /\ args' = << >>
    /\ frames' = << >>
    /\ ftp' = << >>
    /\ cap' = << >>
    /\ ann' = << >>
    /\ ret' = << >>

Next ==
    \/ AnnotateBboxCorners
    \/ CreateLabel
    \/ AnnotateCenterPointTrail
    \/ FetchTextProperties
    \/ FetchTextPropertiesLoop
    \/ FetchTextPropertiesReturn
    \/ CaptureTrafficViolation
    \/ CapturePlateText
    \/ CaptureMetadata
    \/ CalculateLabelPosition
    \/ AnnotateFrame
    \/ AnnotateFrameDetection
    \/ AnnotateLabel
    \/ AnnotateFrameReturn
    \/ Return

Spec == Init /\ [][Next]_vars

-----------------------------------------------------------------------------
(* Properties.                                                             *)

InCall(name) == call = name
Finished(name) == call = name /\ pc = "done"
Ended(name) == call = name /\ pc \in {"done", "raised"}

Clamp(v, lo, hi) == Max(Min(v, hi), lo)

\* C1: capture_traffic_violation never modifies the caller's frame: at every
\* point of the call, also when it raises, the buffer passed in is as it was
\* before the call, every write is in the private copy, and that copy is the
\* frame returned.
C1_CaptureLeavesInputFrame ==
    InCall("capture_traffic_violation") =>
        /\ frames[1] = args.frame
        /\ cap.annotated_frame # 1
        /\ \A fid \in 1..Len(frames) :
              fid # cap.annotated_frame => frames[fid].log = args.frame.log
        /\ pc = "done" => ret.frame = cap.annotated_frame

\* A capture that returned, with the overlay pasted and both bars and texts drawn.
C1_Witness ==
    /\ Finished("capture_traffic_violation")
    /\ cap.pasted
    /\ Len(frames[ret.frame].log) = 9

\* C2: fetch_text_properties never returns a font scale below the minimum
\* 0.8, and the width it returns is at most frame_width - 2*label_padding
\* unless the scale returned is the minimum scale.
C2_ScaleNeverBelowMinimum ==
    Finished("fetch_text_properties") =>
        /\ ~DblGt(min_font_scale, ret.font_scale)
        /\ \/ ret.text_size[1] <= args.frame.w - 2 * label_padding
           \/ ret.font_scale = min_font_scale

\* The radius of every arc the corner-box renderer drew.
DrawnRadius == frames[1].log[1].axes[1]
DrawnThickness == frames[1].log[1].thickness
CornersUniform ==
    /\ Len(frames[1].log) = 4
    /\ \A i \in 1..4 :
          /\ frames[1].log[i].op = "ellipse"
          /\ frames[1].log[i].axes = <<DrawnRadius, DrawnRadius>>
          /\ frames[1].log[i].thickness = DrawnThickness

SquareOfSize(size) == WithBox(BaseDetection, 0, 0, size, size)
GridSizes == {k * CoordStep : k \in (-2)..MaxCoordIdx}

\* The radii are non-decreasing in the size, from every grid size to the one drawn.
RadiusMonotone ==
    \A size \in GridSizes :
        /\ size <= detection_size(args.detection)
              => corner_radius(SquareOfSize(size)) <= DrawnRadius
        /\ size >= detection_size(args.detection)
              => corner_radius(SquareOfSize(size)) >= DrawnRadius

\* C3 as claimed: for every detection size s the corner radius equals
\* clamp(s*0.5, [5,30]), that is twice the radius equals clamp(s, [10,60]),
\* and the radius is non-decreasing in s.
C3_RadiusIsHalfSize ==
    Finished("annotate_bbox_corners") =>
        /\ CornersUniform
        /\ 2 * DrawnRadius = Clamp(detection_size(args.detection), 10, 60)
        /\ RadiusMonotone

\* C3 as amended: the corner radius equals clamp(int(s*0.5), [5,30]), the
\* half size truncated to an integer (s = 2*radius or 2*radius + 1 between
\* the clamps), and the radius is non-decreasing in s.
C3_RadiusIsTruncatedHalfSize ==
    Finished("annotate_bbox_corners") =>
        LET s == detection_size(args.detection) IN
        /\ CornersUniform
        /\ s < 10 => DrawnRadius = 5
        /\ s >= 60 => DrawnRadius = 30
        /\ (10 <= s /\ s < 60) => (2 * DrawnRadius <= s /\ s <= 2 * DrawnRadius + 1)
        /\ RadiusMonotone

\* A box of odd size between the clamps has been drawn.
C3_Witness ==
    /\ Finished("annotate_bbox_corners")
    /\ detection_size(args.detection) = 3 * CoordStep
    /\ 2 * DrawnRadius # detection_size(args.detection)

\* round(s * 0.01): the nearest integer, ties to the even one.
RoundHundredth(s) ==
    LET q == s \div 100
        r == s % 100
    IN  IF r > 50 \/ (r = 50 /\ q % 2 = 1) THEN q + 1 ELSE q

\* C4 as claimed: the stroke thickness equals clamp(round(s*0.01)*2, [1,5]).
C4_ThicknessIsRounded ==
    Finished("annotate_bbox_corners") =>
        /\ CornersUniform
        /\ DrawnThickness = Clamp(RoundHundredth(detection_size(args.detection)) * 2, 1, 5)

\* C4 as amended: the stroke thickness equals clamp(int(s*0.01)*2, [1,5]),
\* s*0.01 truncated toward zero instead of rounded: the value before clamping
\* is twice an integer k with 100k <= s < 100(k+1) (for s < 0, 100(k-1) < s
\* <= 100k), and the thickness lies in [1,5].
C4_ThicknessIsTruncated ==
    Finished("annotate_bbox_corners") =>
        LET s == detection_size(args.detection) IN
        /\ CornersUniform
        /\ DrawnThickness \in 1..5
        /\ \E k \in (-MaxCoordIdx)..MaxCoordIdx :
              /\ IF s >= 0 THEN 100 * k <= s /\ s < 100 * (k + 1)
                           ELSE 100 * (k - 1) < s /\ s <= 100 * k
              /\ DrawnThickness = Clamp(2 * k, 1, 5)

\* A box has been drawn whose size s has s*0.01 round up but truncate down.
C4_Witness ==
    /\ Finished("annotate_bbox_corners")
    /\ detection_size(args.detection) = 6 * CoordStep
    /\ RoundHundredth(detection_size(args.detection)) = 1
    /\ DrawnThickness = 1

\* C5: create_label with a vision type that is none of the five returns the
\* label it returns for object_detection on the same detection.
C5_UnknownTypeGivesDetectionLabel ==
    (Finished("create_label") /\ args.vision_type \notin VisionTypes) =>
        ret.value = create_label(args.detection, "object_detection", args.captured_at).value

\* C6: create_label never fails on missing fields: whatever subset of the
\* confidence score, speed, license-plate record and plate text is absent,
\* it returns a label and raises no error.
C6_LabelNeverRaises ==
    Ended("create_label") => (pc = "done" /\ ret.raised = "none")

\* C7: annotate_center_point_trail on n center points draws nothing and
\* returns the frame as it was when n < 2; when n >= 2 it draws n-1 segments,
\* segment i from point i to point i+1 in the trail colour, and then two
\* circles, at the first and at the last point, in the offender colour.
C7_TrailSegmentsAndMarkers ==
    Finished("annotate_center_point_trail") =>
        LET points == args.center_points
            n == Len(points)
            log == frames[ret.frame].log
        IN  /\ ret.frame = 1 /\ Len(frames) = 1
            /\ n < 2 => frames[1] = args.frame
            /\ n >= 2 =>
                /\ Len(log) = n + 1
                /\ \A i \in 1..(n - 1) :
                      /\ log[i].op = "line"
                      /\ log[i].from = points[i] /\ log[i].to = points[i + 1]
                      /\ log[i].colour = <<255, 10, 10>>
                /\ \A j \in {n, n + 1} :
                      log[j].op = "circle" /\ log[j].colour = <<10, 10, 255>>
                /\ log[n].center = points[1]
                /\ log[n + 1].center = points[n]

\* A trail through three points has been drawn: two segments and two circles.
C7_Witness ==
    /\ Finished("annotate_center_point_trail")
    /\ Len(args.center_points) = 3
    /\ Len(frames[1].log) = 4

\* The overlay rectangle lies entirely inside the frame.
OverlayInsideFrame ==
    /\ 0 <= cap.overlay_x /\ cap.overlay_x + cap.overlay_width <= cap.w
    /\ 0 <= cap.overlay_y /\ cap.overlay_y + cap.overlay_height <= cap.h

\* The overlay rectangle has been computed: lines 479 and 482 did not raise.
OverlayComputed ==
    /\ InCall("capture_traffic_violation")
    /\ ~(pc = "raised" /\ ret.line \in {479, 482})

\* The detection carries the confidence score create_label formats.
HasConfidence == ~IsMissing(args.detection.confidence_score)

\* C8: the upscaled crop is pasted only if the overlay rectangle lies
\* entirely within the frame bounds.
C8_PasteOnlyInsideFrame ==
    (InCall("capture_traffic_violation") /\ cap.pasted) => OverlayInsideFrame

OpsOf(log) == [i \in 1..Len(log) |-> log[i].op]

\* C9: whenever the computed overlay rectangle does not fit inside the
\* frame, capture pastes no overlay, raises no error, and draws the plate
\* bar, the plate text, the metadata bar and the metadata text, in this
\* order, before it returns.  (Stated for detections that carry every field
\* create_label formats.)
C9_SkippedOverlayStillCompletes ==
    (OverlayComputed /\ HasConfidence /\ ~OverlayInsideFrame) =>
        /\ ~cap.pasted
        /\ pc # "raised"
        /\ pc = "done" =>
              OpsOf(frames[ret.frame].log) =
                  <<"ellipse", "ellipse", "ellipse", "ellipse",
                    "fill", "putText", "fill", "putText">>

\* C10: no bounding box, malformed or beyond the frame edges, makes
\* annotate_bbox_corners or capture_traffic_violation raise.  (Stated for
\* detections that carry every field create_label formats, on frames wide
\* enough for the overlay to lie right of the frame's left edge.)
C10_GeometryNeverRaises ==
    /\ InCall("annotate_bbox_corners") => pc # "raised"
    /\ (InCall("capture_traffic_violation") /\ HasConfidence /\ cap.overlay_x >= 0)
          => pc # "raised"

\* C11: the shrink-to-fit loop of fetch_text_properties ends after at most
\* 12 decrements of the font scale, whatever the label, the frame width and
\* the widths the measurement reports on each pass: in every call that runs
\* the search, the loop test can only hold while fewer than 12 decrements
\* were made, so the search never makes a 13th one and never stops only
\* because the model caps it at MaxDecrements.
C11_AtMostTwelveDecrements ==
    ftp # << >> =>
        /\ ftp.decrements <= 12
        /\ (pc = "fetch_text_properties" /\ ftp_continues(ftp)) => ftp.decrements < 12

\* A search whose every measurement was wider than the bound returned after
\* exactly 12 decrements.
C11_Witness ==
    /\ Finished("fetch_text_properties")
    /\ ftp.decrements = 12
    /\ ret.text_size[1] > ftp.max_text_width

\* The steps the claim lists for one detection, by the method that performs
\* each: corner-box arcs, label build, trail (object tracking only), label
\* measurement, label position, label background, label text.
StepsOf(vision_type) ==
    <<"annotate_bbox_corners", "create_label">>
    \o (IF vision_type = "object_tracking" THEN <<"annotate_center_point_trail">> ELSE << >>)
    \o <<"fetch_text_properties", "calculate_label_position",
          "draw_label_background", "draw_label_text">>

\* The steps of n detections, one detection after the other.
StepsOfAll(n, vision_type) ==
    LET steps == StepsOf(vision_type)
        L == Len(steps)
    IN  [k \in 1..(n * L) |-> <<((k - 1) \div L) + 1, steps[((k - 1) % L) + 1]>>]

IsPrefix(p, q) == Len(p) <= Len(q) /\ \A k \in 1..Len(p) : p[k] = q[k]

\* The calls annotate_frame has made so far, the center-point helper aside.
StepsMade == SelectSeq(ann.calls, LAMBDA c : c[2] # "calculate_center_point")

\* The kinds of the draw operations of one detection: four corner arcs, the
\* trail (segments, then two markers) when tracking a history of two points
\* or more, two rectangles and four corners of the background, the text.
DrawKindsOf(detection, vision_type) ==
    LET n == Len(center_points_of(detection))
    IN  <<"ellipse", "ellipse", "ellipse", "ellipse">>
        \o (IF vision_type = "object_tracking" /\ n >= 2
            THEN [k \in 1..(n + 1) |-> IF k < n THEN "line" ELSE "circle"]
            ELSE << >>)
        \o <<"rectangle", "rectangle", "ellipse", "ellipse", "ellipse", "ellipse", "putText">>

RECURSIVE DrawKinds(_, _)
DrawKinds(detections, vision_type) ==
    IF detections = << >> THEN << >>
    ELSE DrawKindsOf(Head(detections), vision_type) \o DrawKinds(Tail(detections), vision_type)

\* In the log of draws, the draws of detection j begin with its corner arcs
\* and, once complete, end with its label text.
DrawsBelongTo(log, detections, vision_type, j) ==
    LET first == Len(DrawKinds(SubSeq(detections, 1, j - 1), vision_type)) + 1
        last == Len(DrawKinds(SubSeq(detections, 1, j), vision_type))
    IN  /\ Len(log) >= first + 3 => SubSeq(log, first, first + 3) = bbox_corners(detections[j])
        /\ Len(log) >= last =>
               log[last].text = create_label(detections[j], vision_type, Missing).value

\* C12: annotate_frame takes the detections in input order and performs, for
\* each one, corner-box arcs, label build, trail (if and only if the vision
\* type is object_tracking), label measurement, label position, label
\* background, label text, in this order: at every point of the call the
\* steps made are an initial part of that sequence and the draws on the frame
\* an initial part of the draws of detection 1, then 2, and so on, each
\* block being the draws of its own detection; when the call returns, all of
\* them were made, on the frame passed in, which is the frame returned; an
\* empty list returns the frame with no draw.
C12_StepsInOrder ==
    InCall("annotate_frame") =>
        LET detections == args.detections
            vision_type == args.vision_type
            all_steps == StepsOfAll(Len(detections), vision_type)
            all_draws == DrawKinds(detections, vision_type)
            log == frames[1].log
        IN  /\ Len(frames) = 1
            /\ IsPrefix(StepsMade, all_steps)
            /\ IsPrefix(OpsOf(log), all_draws)
            /\ \A j \in 1..Len(detections) : DrawsBelongTo(log, detections, vision_type, j)
            /\ pc = "done" =>
                   /\ StepsMade = all_steps
                   /\ OpsOf(log) = all_draws
                   /\ ret.frame = 1
                   /\ detections = << >> => log = << >>

\* Two different detections were annotated for object tracking, the first
\* with a trail of three points, the second after a font-scale search that
\* shrank its label.
C12_Witness ==
    /\ Finished("annotate_frame")
    /\ args.vision_type = "object_tracking"
    /\ Len(args.detections) = 2
    /\ Len(center_points_of(args.detections[1])) = 3
    /\ args.detections[2] # args.detections[1]
    /\ ftp.decrements > 0
    /\ Len(frames[1].log) = 26

\* C13: for every box bottom, center point and measured text size, the
\* position calculate_label_position returns is a box horizontally centered
\* on the center x (x + width/2 is center_x, to within a pixel of integer
\* rounding), with its top edge at bbox_bottom + text_height + label_padding,
\* its width text_width + 2*label_padding and its height
\* text_height + 2*label_padding.  The center point is in half pixels.
C13_LabelCenteredBelowBox ==
    Finished("calculate_label_position") =>
        LET position == ret.position
            text_width == args.text_size[1]
            text_height == args.text_size[2]
        IN  /\ Abs(2 * position.x + position.width - args.center_point[1]) <= 2
            /\ position.y = args.bbox_bottom + text_height + label_padding
            /\ position.width = text_width + 2 * label_padding
            /\ position.height = text_height + 2 * label_padding

====
